---- MODULE Spec2Model ----
(***************************************************************************)
(* planty-mcp: the Record Store (src/src/database.ts, PostgreSQL version), *)
(* the Credential Manager (same file), the Access Middleware               *)
(* (src/src/auth.ts), the streaming sessions (src/src/http.ts), the routes *)
(* (src/src/routes.ts) and the tool handlers (handlers.ts, server.ts), as  *)
(* state machines.                                                         *)
(*                                                                         *)
(* Every pool.query is one atomic statement of the storage engine; a       *)
(* handler that awaits several statements is a sequence of steps, so that  *)
(* other requests (and storage failures) can fall between its statements.  *)
(***************************************************************************)
EXTENDS Integers, Sequences, FiniteSets, TLC

\* ------------------------------------------------------------------ bounds
MaxUsers == 2       \* user rows present in the Record Store runs
MaxIds == 2         \* uuidv4() values drawn after the initial ones
MaxInflight == 1    \* handlers suspended at an await at the same time
MaxClock == 1       \* clock readings (new Date()) after the first
MaxDate == 2        \* calendar dates a caller can pass
MaxKeys == 2        \* crypto.randomBytes values drawn by generateApiKey
MaxAuthIds == 2     \* uuidv4() values drawn in a credential run

\* ------------------------------------------------------- program constants
KeyPrefixLen == 16
KeyPrefixWidth == 10

VARIABLES
    schema,            \* which DDL the tables were created by
    users,             \* rows of table users
    api_keys,          \* rows of table api_keys
    plants,            \* rows of table plants
    watering_history,  \* rows of table watering_history
    growth_logs,       \* rows of table growth_logs
    plant_images,      \* rows of table plant_images
    inflight,          \* Record Store calls suspended at an await
    resp,              \* what the last completed Record Store call returned
    nextId,            \* number of uuidv4() values drawn so far
    clock,             \* the wall clock, read by new Date()
    issued,            \* plaintext tokens createApiKey has returned
    nextKey,           \* number of random token bodies drawn so far
    req,               \* the HTTP request in the access middleware
    userTransports,    \* http.ts: identity -> its registered streaming session
    transports,        \* the SSEServerTransport objects made so far
    handlers,          \* GET /sse handlers suspended at an await
    httpResp,          \* what the last completed HTTP handler answered
    tool               \* what the last completed tool call returned

vars == <<schema, users, api_keys, plants, watering_history, growth_logs,
          plant_images, inflight, resp, nextId, clock, issued, nextKey, req,
          userTransports, transports, handlers, httpResp, tool>>

tables == <<users, api_keys, plants, watering_history, growth_logs, plant_images>>
authVars == <<api_keys, issued, nextKey, req>>
storeVars == <<schema, tables, inflight, resp, nextId, clock, issued, nextKey, req>>
sseVars == <<userTransports, transports, handlers>>
serverVars == <<sseVars, httpResp>>

UserIds == 1..MaxUsers
Ids == 1..(MaxUsers + MaxIds)
AbsentId == 0                      \* an id uuidv4() never returned
Dates == 1..MaxDate
NoDate == 0                        \* SQL NULL in a DATE column
Names == {"Aloe", "Basil"}
Locations == {"Kitchen", "Office"}
Emails == {"a@example.com", "b@example.com"}
NoEmail == "NULL"                  \* SQL NULL in users.email

\* ------------------------------------------------------------ Record Store

\* getPlant with the user_id condition of its WHERE clause left out
getPlantAnyOwner(userId, id) ==
    {r \in plants : r.id = id}

\* SELECT * FROM plants WHERE id = $1 AND user_id = $2  (result.rows)
getPlant(userId, id) ==
    {r \in plants : r.id = id /\ r.user_id = userId}

\* what a completed call hands back to its caller
Response(op, userId, target, status, rows, id) ==
    [op |-> op, user |-> userId, target |-> target, status |-> status,
     rows |-> rows, id |-> id]

NoResponse == Response("none", 0, 0, "ok", {}, 0)

\* FOREIGN KEY (user_id) REFERENCES users(id)
UserExists(userId) == \E u \in users : u.id = userId
\* a plant_id column without its foreign key: every value is accepted
NoPlantForeignKey(plantId) == TRUE
\* FOREIGN KEY (plant_id) REFERENCES plants(id)
PlantExists(plantId) == \E p \in plants : p.id = plantId

HasId == nextId < MaxUsers + MaxIds
FreshId == nextId + 1

\* a JavaScript number with at most one binary digit after the point:
\* whole + half/2, so 7 is Number(7, 0) and 0.5 is Number(0, 1)
Number(whole, half) == [whole |-> whole, half |-> half]
\* what an INTEGER column takes: a value with a fraction is rejected
isInteger(n) == n.half = 0

\* Omit<Plant, ...> as the caller built it: the properties that are not
\* undefined, and the values of those the rows carry
Plant(given, name, species, location, wateringFrequency) ==
    [given |-> given, name |-> name, species |-> species, location |-> location,
     wateringFrequency |-> wateringFrequency]

\* the NOT NULL columns of plants that addPlant fills from its argument
NotNullColumns == {"name", "species", "location", "acquiredDate", "wateringFrequency"}

\* addPlant: one INSERT; undefined in a NOT NULL column or a fraction in the
\* INTEGER column makes the statement throw
addPlant(userId, plant) ==
    /\ UserExists(userId)
    /\ IF NotNullColumns \subseteq plant.given /\ isInteger(plant.wateringFrequency)
       THEN /\ HasId
            /\ LET row == [id |-> FreshId, user_id |-> userId, name |-> plant.name,
                           species |-> plant.species, location |-> plant.location,
                           watering_frequency |-> plant.wateringFrequency.whole,
                           last_watered |-> NoDate, updated_at |-> clock]
               IN /\ plants' = plants \cup {row}
                  /\ resp' = Response("addPlant", userId, FreshId, "ok", {row}, FreshId)
            /\ nextId' = FreshId
       ELSE /\ resp' = Response("addPlant", userId, AbsentId, "error", {}, AbsentId)
            /\ UNCHANGED <<plants, nextId>>
    /\ UNCHANGED <<serverVars, schema, users, watering_history, growth_logs, plant_images,
                   inflight, clock>>
    /\ UNCHANGED authVars

\* filters?: a property that is undefined or empty is falsy and adds no
\* condition; "" stands for both
NoFilters == [location |-> "", species |-> ""]

\* listPlants with the species condition left out of the query
listPlantsAnySpecies(userId, filters) ==
    {p \in plants : /\ p.user_id = userId
                    /\ filters.location /= "" => p.location = filters.location}

\* SELECT * FROM plants WHERE user_id = $1 [AND location = ..] [AND species = ..]
listPlants(userId, filters) ==
    {p \in plants : /\ p.user_id = userId
                    /\ filters.location /= "" => p.location = filters.location
                    /\ filters.species /= "" => p.species = filters.species}

\* the order of the name column: text compares by its place in the collation
NamesInOrder == <<"Aloe", "Basil">>

\* ORDER BY name: every arrangement of the rows with the names ascending
\* (rows of one name come in an order the engine picks)
orderByName(rows) ==
    {s \in [1..Cardinality(rows) -> rows] :
        /\ \A i, j \in DOMAIN s : i /= j => s[i] /= s[j]
        /\ \A i, j \in DOMAIN s :
              i < j => \E m, n \in DOMAIN NamesInOrder :
                          /\ m <= n
                          /\ NamesInOrder[m] = s[i].name
                          /\ NamesInOrder[n] = s[j].name}

\* listPlants as a call: result.rows in the order of the query, each row
\* with its place in the array
ListPlantsCall(userId, filters) ==
    /\ \E s \in orderByName(listPlants(userId, filters)) :
          resp' = Response("listPlants", userId, AbsentId, "ok",
                           {[rank |-> i, row |-> s[i]] : i \in DOMAIN s}, AbsentId)
    /\ UNCHANGED <<serverVars, schema, tables, inflight, nextId, clock>>
    /\ UNCHANGED authVars

\* getPlant as a call of its own
GetPlantCall(userId, id) ==
    /\ resp' = Response("getPlant", userId, id,
                        IF getPlant(userId, id) = {} THEN "not_found" ELSE "ok",
                        getPlant(userId, id), id)
    /\ UNCHANGED <<serverVars, schema, tables, inflight, nextId, clock>>
    /\ UNCHANGED authVars

\* deletePlant with the child tables left as they are (no ON DELETE CASCADE)
deletePlantNoCascade(userId, id) ==
    LET gone == {r \in plants : r.id = id /\ r.user_id = userId}
    IN /\ plants' = plants \ gone
       /\ resp' = Response("deletePlant", userId, id,
                           IF Cardinality(gone) > 0 THEN "ok" ELSE "not_found",
                           gone, id)
       /\ UNCHANGED <<serverVars, schema, users, watering_history, growth_logs,
                      plant_images, inflight, nextId, clock>>
       /\ UNCHANGED authVars

\* deletePlant with the user_id condition of its WHERE clause left out
deletePlantAnyOwner(userId, id) ==
    LET gone == {r \in plants : r.id = id}
        goneIds == {r.id : r \in gone}
    IN /\ plants' = plants \ gone
       /\ watering_history' = {w \in watering_history : w.plant_id \notin goneIds}
       /\ growth_logs' = {g \in growth_logs : g.plant_id \notin goneIds}
       /\ plant_images' = {i \in plant_images : i.plant_id \notin goneIds}
       /\ resp' = Response("deletePlant", userId, id,
                           IF Cardinality(gone) > 0 THEN "ok" ELSE "not_found",
                           gone, id)
       /\ UNCHANGED <<serverVars, schema, users, inflight, nextId, clock>>
       /\ UNCHANGED authVars

\* DELETE FROM plants WHERE id = $1 AND user_id = $2, with the
\* ON DELETE CASCADE of the three child tables
deletePlant(userId, id) ==
    LET gone == {r \in plants : r.id = id /\ r.user_id = userId}
        goneIds == {r.id : r \in gone}
    IN /\ plants' = plants \ gone
       /\ watering_history' = {w \in watering_history : w.plant_id \notin goneIds}
       /\ growth_logs' = {g \in growth_logs : g.plant_id \notin goneIds}
       /\ plant_images' = {i \in plant_images : i.plant_id \notin goneIds}
       /\ resp' = Response("deletePlant", userId, id,
                           IF Cardinality(gone) > 0 THEN "ok" ELSE "not_found",
                           gone, id)
       /\ UNCHANGED <<serverVars, schema, users, inflight, nextId, clock>>
       /\ UNCHANGED authVars

\* SELECT * FROM watering_history WHERE plant_id = $1 AND user_id = $2
getWateringHistory(userId, plantId) ==
    {r \in watering_history : r.plant_id = plantId /\ r.user_id = userId}

\* SELECT * FROM growth_logs WHERE plant_id = $1 AND user_id = $2
getGrowthLogs(userId, plantId) ==
    {r \in growth_logs : r.plant_id = plantId /\ r.user_id = userId}

\* SELECT * FROM plant_images WHERE id = $1 AND user_id = $2
getPlantImage(userId, id) ==
    {r \in plant_images : r.id = id /\ r.user_id = userId}

\* SELECT * FROM plant_images WHERE plant_id = $1 AND user_id = $2
getPlantImages(userId, plantId) ==
    {r \in plant_images : r.plant_id = plantId /\ r.user_id = userId}

\* ---- handlers of several statements: the call is suspended in inflight ----

Call(op, userId, plantId, pc, id, now, date, upd) ==
    [op |-> op, user |-> userId, plant |-> plantId, pc |-> pc, id |-> id,
     now |-> now, date |-> date, upd |-> upd]

CanSuspend == Cardinality(inflight) < MaxInflight

\* Partial<Plant>: the set of <<field, value>> pairs the caller supplied
UpdateFields == {"name", "species", "location", "wateringFrequency"}
Updates ==
    {u \in SUBSET (({"name"} \X Names) \cup ({"species"} \X {"Aloe vera", "Ocimum"})
                      \cup ({"location"} \X Locations)
                      \cup ({"wateringFrequency"} \X
                               {Number(w, h) : w \in -1..1, h \in 0..1})) :
        \A p, q \in u : p[1] = q[1] => p = q}
keys(upd) == {p[1] : p \in upd}
valueOf(upd, f) == (CHOOSE p \in upd : p[1] = f)[2]
\* the SET clause without the field: the column keeps its value
NotUpdated(row, upd, f) == row[f]
Updated(row, upd, f) ==
    IF f \in keys(upd) THEN valueOf(upd, f) ELSE row[f]

\* updatePlant, up to its first await and the early returns after it
updatePlant(userId, id, upd) ==
    LET exists == getPlant(userId, id) IN
    /\ IF exists = {}
       THEN /\ resp' = Response("updatePlant", userId, id, "not_found", {}, id)
            /\ UNCHANGED inflight
       ELSE IF Cardinality(keys(upd)) = 0
       THEN /\ resp' = Response("updatePlant", userId, id, "ok", exists, id)
            /\ UNCHANGED inflight
       ELSE /\ CanSuspend
            /\ inflight' = inflight \cup
                   {Call("updatePlant", userId, id, "update", id, clock, NoDate, upd)}
            /\ UNCHANGED resp
    /\ UNCHANGED <<serverVars, schema, tables, nextId, clock>>
    /\ UNCHANGED authVars

\* UPDATE plants SET <fields>, updated_at = now WHERE id = .. AND user_id = ..;
\* a fraction for the INTEGER column makes the statement throw
updatePlant_update(c) ==
    /\ c \in inflight /\ c.op = "updatePlant" /\ c.pc = "update"
    /\ IF /\ "wateringFrequency" \in keys(c.upd)
          /\ ~isInteger(valueOf(c.upd, "wateringFrequency"))
       THEN /\ resp' = Response(c.op, c.user, c.plant, "error", {}, c.id)
            /\ inflight' = inflight \ {c}
            /\ UNCHANGED plants
       ELSE /\ plants' =
                  {IF r.id = c.plant /\ r.user_id = c.user
                   THEN [r EXCEPT !.name = Updated(r, c.upd, "name"),
                                  !.species = Updated(r, c.upd, "species"),
                                  !.location = Updated(r, c.upd, "location"),
                                  !.watering_frequency =
                                      IF "wateringFrequency" \in keys(c.upd)
                                      THEN valueOf(c.upd, "wateringFrequency").whole
                                      ELSE r.watering_frequency,
                                  !.updated_at = clock]
                   ELSE r : r \in plants}
            /\ inflight' = (inflight \ {c}) \cup
                               {[c EXCEPT !.pc = "return", !.now = clock]}
            /\ UNCHANGED resp
    /\ UNCHANGED <<serverVars, schema, users, watering_history, growth_logs, plant_images,
                   nextId, clock>>
    /\ UNCHANGED authVars

\* return this.getPlant(userId, id)
updatePlant_return(c) ==
    /\ c \in inflight /\ c.op = "updatePlant" /\ c.pc = "return"
    /\ resp' = Response("updatePlant", c.user, c.plant,
                        IF getPlant(c.user, c.plant) = {} THEN "not_found" ELSE "ok",
                        getPlant(c.user, c.plant), c.id)
    /\ inflight' = inflight \ {c}
    /\ UNCHANGED <<serverVars, schema, tables, nextId, clock>>
    /\ UNCHANGED authVars

\* waterPlant, up to its first await: the ownership check, then id and now
waterPlant(userId, plantId, wateredDate) ==
    LET plant == getPlant(userId, plantId) IN
    /\ IF plant = {}
       THEN /\ resp' = Response("waterPlant", userId, plantId, "not_found", {}, 0)
            /\ UNCHANGED <<inflight, nextId>>
       ELSE /\ CanSuspend /\ HasId
            /\ inflight' = inflight \cup
                   {Call("waterPlant", userId, plantId, "insert", FreshId, clock,
                         wateredDate, {})}
            /\ nextId' = FreshId
            /\ UNCHANGED resp
    /\ UNCHANGED <<serverVars, schema, tables, clock>>
    /\ UNCHANGED authVars

WateringRow(c) ==
    [id |-> c.id, user_id |-> c.user, plant_id |-> c.plant,
     watered_date |-> c.date]

\* INSERT INTO watering_history ...; both foreign keys are checked by the engine
waterPlant_insert(c) ==
    /\ c \in inflight /\ c.op = "waterPlant" /\ c.pc = "insert"
    /\ IF UserExists(c.user) /\ PlantExists(c.plant)
       THEN /\ watering_history' = watering_history \cup {WateringRow(c)}
            /\ inflight' = (inflight \ {c}) \cup {[c EXCEPT !.pc = "update"]}
            /\ UNCHANGED resp
       ELSE /\ resp' = Response("waterPlant", c.user, c.plant, "error", {}, c.id)
            /\ inflight' = inflight \ {c}
            /\ UNCHANGED watering_history
    /\ UNCHANGED <<serverVars, schema, users, api_keys, plants, growth_logs, plant_images,
                   nextId, clock, issued, nextKey, req>>

\* UPDATE plants SET last_watered = .., updated_at = .. WHERE id AND user_id
waterPlant_update(c) ==
    /\ c \in inflight /\ c.op = "waterPlant" /\ c.pc = "update"
    /\ plants' = {IF r.id = c.plant /\ r.user_id = c.user
                  THEN [r EXCEPT !.last_watered = c.date, !.updated_at = c.now]
                  ELSE r : r \in plants}
    /\ resp' = Response("waterPlant", c.user, c.plant, "ok", {WateringRow(c)}, c.id)
    /\ inflight' = inflight \ {c}
    /\ UNCHANGED <<serverVars, schema, users, api_keys, watering_history, growth_logs,
                   plant_images, nextId, clock, issued, nextKey, req>>

ChildRow(c) ==
    [id |-> c.id, user_id |-> c.user, plant_id |-> c.plant, date |-> c.date]

\* addGrowthLog / addPlantImage, up to the first await
AddChild(op, userId, plantId, date) ==
    LET plant == getPlant(userId, plantId) IN
    /\ IF plant = {}
       THEN /\ resp' = Response(op, userId, plantId, "not_found", {}, 0)
            /\ UNCHANGED <<inflight, nextId>>
       ELSE /\ CanSuspend /\ HasId
            /\ inflight' = inflight \cup
                   {Call(op, userId, plantId, "insert", FreshId, clock, date, {})}
            /\ nextId' = FreshId
            /\ UNCHANGED resp
    /\ UNCHANGED <<serverVars, schema, tables, clock>>
    /\ UNCHANGED authVars

addGrowthLog(userId, plantId, logDate) ==
    AddChild("addGrowthLog", userId, plantId, logDate)

addPlantImage(userId, plantId, takenAt) ==
    AddChild("addPlantImage", userId, plantId, takenAt)

\* INSERT INTO growth_logs ...
addGrowthLog_insert(c) ==
    /\ c \in inflight /\ c.op = "addGrowthLog" /\ c.pc = "insert"
    /\ IF UserExists(c.user) /\ PlantExists(c.plant)
       THEN /\ growth_logs' = growth_logs \cup {ChildRow(c)}
            /\ resp' = Response(c.op, c.user, c.plant, "ok", {ChildRow(c)}, c.id)
       ELSE /\ resp' = Response(c.op, c.user, c.plant, "error", {}, c.id)
            /\ UNCHANGED growth_logs
    /\ inflight' = inflight \ {c}
    /\ UNCHANGED <<serverVars, schema, users, api_keys, plants, watering_history,
                   plant_images, nextId, clock, issued, nextKey, req>>

\* INSERT INTO plant_images ...
addPlantImage_insert(c) ==
    /\ c \in inflight /\ c.op = "addPlantImage" /\ c.pc = "insert"
    /\ IF UserExists(c.user) /\ PlantExists(c.plant)
       THEN /\ plant_images' = plant_images \cup {ChildRow(c)}
            /\ resp' = Response(c.op, c.user, c.plant, "ok", {ChildRow(c)}, c.id)
       ELSE /\ resp' = Response(c.op, c.user, c.plant, "error", {}, c.id)
            /\ UNCHANGED plant_images
    /\ inflight' = inflight \ {c}
    /\ UNCHANGED <<serverVars, schema, users, api_keys, plants, watering_history,
                   growth_logs, nextId, clock, issued, nextKey, req>>

\* the statement a suspended call awaits rejects (connection lost, engine
\* down): pool.query throws, no handler catches it, the call rejects
StorageFailure(c) ==
    /\ c \in inflight
    /\ resp' = Response(c.op, c.user, c.plant, "error", {}, c.id)
    /\ inflight' = inflight \ {c}
    /\ UNCHANGED <<serverVars, schema, tables, nextId, clock>>
    /\ UNCHANGED authVars

\* ------------------------------------------------------ Credential Manager

\* Text is a sequence of pieces; the pieces are cut where the code cuts
\* (startsWith, substring), so a prefix test is a test on leading pieces.
startsWith(s, prefix) ==
    /\ Len(s) >= Len(prefix)
    /\ SubSeq(s, 1, Len(prefix)) = prefix

\* generateApiKey: `planty_live_${randomBytes}`
TokenPrefix == <<"planty", "_live_">>
\* the random part is two pieces: its first 4 characters, which
\* substring(0, 16) keeps in key_prefix, and the other 28
generateApiKey ==
    TokenPrefix \o <<ToString(nextKey + 1), ToString(nextKey + 1)>>
keyPrefix(apiKey) == SubSeq(apiKey, 1, 3)

\* hashApiKey: sha256 hex digest; injective, and never a token itself
\* a "hash" that is the token itself
hashApiKeyPlain(apiKey) == apiKey

hashApiKey(apiKey) == <<"sha256">> \o apiKey

\* The tables are made by CREATE TABLE IF NOT EXISTS: a database that was
\* empty gets the columns of initializeDatabase ("created"); one whose
\* tables were already there keeps its own ("existing"), which are taken
\* to be the ones the statements of this file are written against: a
\* nullable email (createUser() is called without one), a key_prefix that
\* holds 16 characters, and a last_used_at column.
ColumnsCreated ==
    {"id", "user_id", "key_hash", "key_prefix", "created_at", "last_used",
     "is_active"}
\* the columns the statements of createApiKey, getUserByApiKey and
\* revokeApiKey name
ColumnsExisting ==
    {"id", "user_id", "key_hash", "key_prefix", "created_at", "last_used_at",
     "is_active"}
ApiKeysColumns == IF schema = "created" THEN ColumnsCreated ELSE ColumnsExisting
\* users.email VARCHAR(255) UNIQUE NOT NULL
EmailNotNull == schema = "created"
\* api_keys.key_prefix VARCHAR(10) against apiKey.substring(0, 16)
KeyPrefixFits == schema /= "created" \/ KeyPrefixLen <= KeyPrefixWidth

HasAuthId == nextId < MaxUsers + MaxAuthIds

\* createUser: the INSERT, and the catch that looks the new id up
createUserCall(email) ==
    /\ nextId' = FreshId
    /\ LET row == [id |-> FreshId, email |-> email]
           violates == \/ email = NoEmail /\ EmailNotNull
                       \/ email /= NoEmail /\ \E u \in users : u.email = email
           existing == {u \in users : u.id = FreshId}
       IN IF ~violates
          THEN /\ users' = users \cup {row}
               /\ resp' = Response("createUser", FreshId, email, "ok", {row}, FreshId)
          ELSE /\ UNCHANGED users
               /\ resp' = IF existing /= {}
                          THEN Response("createUser", FreshId, email, "ok",
                                        existing, FreshId)
                          ELSE Response("createUser", FreshId, email, "error",
                                        {}, FreshId)
    /\ UNCHANGED <<schema, plants, watering_history, growth_logs, plant_images,
                   inflight, clock>>
    /\ UNCHANGED authVars

createUser(email) ==
    /\ HasAuthId
    /\ createUserCall(email)
    /\ UNCHANGED serverVars

HasKey == nextKey < MaxKeys

\* createApiKey: generate, hash, INSERT INTO api_keys, return the plaintext
createApiKeyCall(userId) ==
    /\ nextId' = FreshId
    /\ nextKey' = nextKey + 1
    /\ LET apiKey == generateApiKey
           row == [id |-> FreshId, user_id |-> userId,
                   key_hash |-> hashApiKey(apiKey),
                   key_prefix |-> keyPrefix(apiKey),
                   last_used |-> NoDate, is_active |-> TRUE]
       IN IF UserExists(userId) /\ KeyPrefixFits
          THEN /\ api_keys' = api_keys \cup {row}
               /\ issued' = issued \cup {apiKey}
               /\ resp' = Response("createApiKey", userId, apiKey, "ok", {row},
                                   FreshId)
          ELSE /\ UNCHANGED <<api_keys, issued>>
               /\ resp' = Response("createApiKey", userId, apiKey, "error", {},
                                   FreshId)
    /\ UNCHANGED <<schema, users, plants, watering_history, growth_logs,
                   plant_images, inflight, clock, req>>

createApiKey(userId) ==
    /\ HasAuthId /\ HasKey
    /\ createApiKeyCall(userId)
    /\ UNCHANGED serverVars

\* revokeApiKey(keyHash): UPDATE api_keys SET is_active = false
\*                        WHERE key_hash = hashApiKey(keyHash)
revokeApiKey(keyHash) ==
    LET hit == {k \in api_keys : k.key_hash = hashApiKey(keyHash)} IN
    /\ api_keys' = {IF k \in hit THEN [k EXCEPT !.is_active = FALSE] ELSE k :
                        k \in api_keys}
    /\ resp' = Response("revokeApiKey", 0, keyHash,
                        IF Cardinality(hit) > 0 THEN "ok" ELSE "not_found",
                        hit, 0)
    /\ UNCHANGED <<serverVars, schema, users, plants, watering_history, growth_logs,
                   plant_images, inflight, nextId, clock, issued, nextKey, req>>

\* the join with the is_active condition left out
SelectUserAnyState(apiKey) ==
    {u \in users : \E ak \in api_keys :
        /\ u.id = ak.user_id
        /\ ak.key_hash = hashApiKey(apiKey)}

\* getUserByApiKey, first statement: the join of users and api_keys
SelectUser(apiKey) ==
    {u \in users : \E ak \in api_keys :
        /\ u.id = ak.user_id
        /\ ak.key_hash = hashApiKey(apiKey)
        /\ ak.is_active = TRUE}

\* getUserByApiKey, second statement:
\* UPDATE api_keys SET last_used_at = $1 WHERE key_hash = $2
TouchFails == "last_used_at" \notin ApiKeysColumns
Touched(apiKey) ==
    {IF k.key_hash = hashApiKey(apiKey) THEN [k EXCEPT !.last_used = clock]
     ELSE k : k \in api_keys}

\* ------------------------------------------------------- Access Middleware

NoHeader == << >>                       \* req.headers.authorization undefined
Bearer(key) == <<"Bearer ">> \o key
Paths ==
    {"/api/generate-key", "/health", "/", "/static/style.css", "/index.html",
     "/logo.png", "/api/me", "/sse", "/message"}
\* keys a client can present without having been issued one
ForgedKeys ==
    {<<"invalid_key_format">>, <<"planty", "_bogus">>,
     <<"planty", "_live_", "9", "9">>}
Headers ==
    {NoHeader, <<"InvalidFormat">>} \cup {Bearer(k) : k \in ForgedKeys \cup issued}

\* what the presented credential is in the store when the request arrives
CredentialOf(header) ==
    IF header = NoHeader \/ ~startsWith(header, <<"Bearer ">>) THEN "missing"
    ELSE LET hits == {k \in api_keys : k.key_hash = hashApiKey(Tail(header))}
         IN IF hits = {} THEN "unknown"
            ELSE IF \E k \in hits : k.is_active THEN "active" ELSE "inactive"

Request(path, header) ==
    [path |-> path, header |-> header, cred |-> CredentialOf(header),
     pc |-> "start", key |-> << >>, rows |-> {}, status |-> 0, next |-> FALSE,
     userId |-> 0, userEmail |-> NoEmail, lookups |-> 0, threwAt |-> "none"]

NoRequest == [Request("/", NoHeader) EXCEPT !.pc = "none", !.cred = "missing"]

\* the path the middleware lets through without a credential
ExemptPath(path) == path = "api/generate-key"
\* the format check on the presented key
WellFormed(key) == startsWith(key, <<"planty">>)

\* return next()
CallNext(r) == [r EXCEPT !.pc = "done", !.next = TRUE]
\* return res.status(401).json(...)
Reject(r) == [r EXCEPT !.pc = "done", !.status = 401]
\* a catch block that answers as the other failure branches do
CatchAsUnauthorized(r) == [r EXCEPT !.pc = "done", !.status = 401, !.threwAt = r.pc]
\* catch (error) { return res.status(500).json(...) }
Catch(r) == [r EXCEPT !.pc = "done", !.status = 500, !.threwAt = r.pc]
\* req.userId = user.id; req.userEmail = user.email; next()
Attach(r, user) ==
    [r EXCEPT !.pc = "done", !.next = TRUE, !.userId = user.id,
              !.userEmail = user.email]

\* the middleware from the arrival of a request to its first await
Middleware(path, header) ==
    LET r == Request(path, header)
        key == Tail(header)               \* authHeader.substring(7)
    IN /\ req.pc \in {"none", "done"}
       /\ req' = IF ExemptPath(path) THEN CallNext(r)
                 ELSE IF header = NoHeader \/ ~startsWith(header, <<"Bearer ">>)
                 THEN Reject(r)
                 ELSE IF ~WellFormed(key) THEN Reject([r EXCEPT !.key = key])
                 ELSE [r EXCEPT !.key = key, !.pc = "select", !.lookups = 1]
       /\ UNCHANGED <<serverVars, schema, tables, inflight, resp, nextId, clock, issued, nextKey>>

\* await db.getUserByApiKey(key): the SELECT
getUserByApiKey_select ==
    /\ req.pc = "select"
    /\ LET rows == SelectUser(req.key)
       IN req' = IF rows = {} THEN Reject(req)         \* user undefined
                 ELSE [req EXCEPT !.pc = "update", !.rows = rows]
    /\ UNCHANGED <<serverVars, schema, tables, inflight, resp, nextId, clock, issued, nextKey>>

\* await db.getUserByApiKey(key): the UPDATE of the last-used time, then
\* the return of the user to the middleware
getUserByApiKey_update ==
    /\ req.pc = "update"
    /\ IF TouchFails
       THEN /\ req' = Catch(req)
            /\ UNCHANGED api_keys
       ELSE /\ api_keys' = Touched(req.key)
            /\ req' = Attach(req, CHOOSE u \in req.rows : TRUE)
    /\ UNCHANGED <<serverVars, schema, users, plants, watering_history, growth_logs,
                   plant_images, inflight, resp, nextId, clock, issued, nextKey>>

\* the statement getUserByApiKey awaits rejects: it throws into the
\* middleware's try block
getUserByApiKey_throws ==
    /\ req.pc \in {"select", "update"}
    /\ req' = Catch(req)
    /\ UNCHANGED <<serverVars, schema, tables, inflight, resp, nextId, clock, issued, nextKey>>

Tick ==
    /\ clock <= MaxClock
    /\ clock' = clock + 1
    /\ UNCHANGED <<serverVars, schema, tables, inflight, resp, nextId>>
    /\ UNCHANGED authVars

\* ------------------------------------------------- Streaming Sessions (SSE)

MaxTransports == 3  \* SSEServerTransport objects constructed in a run
MaxHandlers == 2    \* GET /sse handlers suspended at the same time

NoTransport == 0                   \* userTransports.get(userId) === undefined

\* what an HTTP handler answered: the status, the transport a POST
\* /message was handed to, and the texts in the JSON body
HttpResponse(route, userId, status, to, body) ==
    [route |-> route, user |-> userId, status |-> status, to |-> to,
     body |-> body]

NoHttpResponse == HttpResponse("none", 0, 0, NoTransport, {})

\* a handler suspended at an await: its route, req.userId, where it stands
Handler(route, userId, pc, transport) ==
    [route |-> route, user |-> userId, pc |-> pc, transport |-> transport]

\* new SSEServerTransport('/message', res), with the onclose of lines 161-164
Transport(userId) == [user |-> userId, state |-> "open", onclose |-> FALSE]

Open(t) == t \in 1..Len(transports) /\ transports[t].state = "open"

\* transport.close() / the client going away: the stream ends and the
\* transport's onclose callback is due
closed(ts, t) == [ts EXCEPT ![t].state = "closed", ![t].onclose = TRUE]

CanConstruct == Len(transports) < MaxTransports

\* lines 142-166 up to the await: construct, register, set onclose, connect
activate(userId, registry, ts) ==
    /\ transports' = Append(ts, Transport(userId))
    /\ userTransports' = [registry EXCEPT ![userId] = Len(ts) + 1]
    /\ handlers' = handlers \cup {Handler("/sse", userId, "connect", Len(ts) + 1)}

\* GET /sse, lines 127-138 (and on to 166 when no session is registered)
sse_get(userId) ==
    /\ CanConstruct
    /\ Cardinality(handlers) < MaxHandlers
    /\ IF userId = AbsentId
       THEN /\ httpResp' = HttpResponse("/sse", userId, 401, NoTransport, {})
            /\ UNCHANGED sseVars
       ELSE /\ LET existingTransport == userTransports[userId] IN
               IF existingTransport /= NoTransport
               THEN /\ transports' = closed(transports, existingTransport)
                    /\ handlers' = handlers \cup
                                     {Handler("/sse", userId, "close",
                                              existingTransport)}
                    /\ UNCHANGED userTransports
               ELSE activate(userId, userTransports, transports)
            /\ UNCHANGED httpResp
    /\ UNCHANGED storeVars

\* GET /sse, lines 139-166: after await existingTransport.close()
sse_closed(h) ==
    /\ h.route = "/sse" /\ h.pc = "close"
    /\ CanConstruct
    /\ LET registry == [userTransports EXCEPT ![h.user] = NoTransport] IN
       /\ transports' = Append(transports, Transport(h.user))
       /\ userTransports' = [registry EXCEPT ![h.user] = Len(transports) + 1]
       /\ handlers' = (handlers \ {h}) \cup
                        {Handler("/sse", h.user, "connect",
                                 Len(transports) + 1)}
    /\ UNCHANGED httpResp
    /\ UNCHANGED storeVars

\* GET /sse, lines 166-170: server.connect(transport) resolved
sse_connected(h) ==
    /\ h.route = "/sse" /\ h.pc = "connect"
    /\ handlers' = handlers \ {h}
    /\ httpResp' = HttpResponse("/sse", h.user, 200, h.transport, {})
    /\ UNCHANGED <<userTransports, transports>>
    /\ UNCHANGED storeVars

\* GET /sse, lines 171-176: an await rejected; the 500 ends the response
sse_catch(h) ==
    /\ h.route = "/sse"
    /\ handlers' = handlers \ {h}
    /\ httpResp' = HttpResponse("/sse", h.user, 500, NoTransport, {})
    /\ transports' = IF h.pc = "connect"
                     THEN [transports EXCEPT ![h.transport].state = "closed"]
                     ELSE transports
    /\ UNCHANGED userTransports
    /\ UNCHANGED storeVars

\* the client ends an open stream
Disconnect(t) ==
    /\ Open(t)
    /\ transports' = closed(transports, t)
    /\ UNCHANGED <<userTransports, handlers, httpResp>>
    /\ UNCHANGED storeVars

\* transport.onclose, lines 161-164: userTransports.delete(userId)
onclose(t) ==
    /\ t \in 1..Len(transports)
    /\ transports[t].onclose
    /\ transports' = [transports EXCEPT ![t].onclose = FALSE]
    /\ userTransports' = [userTransports EXCEPT ![transports[t].user] = NoTransport]
    /\ UNCHANGED <<handlers, httpResp>>
    /\ UNCHANGED storeVars

\* POST /message with the transport looked up under any identity
message_post_any(userId) ==
    /\ userId /= AbsentId
    /\ \E u \in UserIds :
         /\ userTransports[u] /= NoTransport
         /\ httpResp' = HttpResponse("/message", userId, 202, userTransports[u], {})
    /\ UNCHANGED sseVars
    /\ UNCHANGED storeVars

\* POST /message, lines 179-206
message_post(userId) ==
    /\ IF userId = AbsentId
       THEN httpResp' = HttpResponse("/message", userId, 401, NoTransport, {})
       ELSE LET transport == userTransports[userId] IN
            IF transport = NoTransport
            THEN httpResp' = HttpResponse("/message", userId, 400, NoTransport, {})
            ELSE \E status \in {202, 500} :
                   httpResp' = HttpResponse("/message", userId, status, transport, {})
    /\ UNCHANGED sseVars
    /\ UNCHANGED storeVars

\* ------------------------------------------------------ Routes (routes.ts)

MaxRouteIds == 4    \* uuidv4() values drawn in a run of the routes

HasRouteId == nextId < MaxUsers + MaxRouteIds

\* the JSON body of an error answer
ErrorBody(error) == {<<error>>}

\* POST /api/generate-key, lines 8-10 (and 18-21): db.createUser()
generate_key ==
    /\ HasRouteId
    /\ Cardinality(handlers) < MaxHandlers
    /\ createUserCall(NoEmail)
    /\ IF resp'.status = "ok"
       THEN /\ handlers' = handlers \cup
                  {Handler("/api/generate-key", resp'.id, "createApiKey",
                           NoTransport)}
            /\ UNCHANGED httpResp
       ELSE /\ httpResp' = HttpResponse("/api/generate-key", AbsentId, 500,
                               NoTransport, ErrorBody("Failed to generate API key"))
            /\ UNCHANGED handlers
    /\ UNCHANGED <<userTransports, transports>>

\* POST /api/generate-key, lines 11-21: db.createApiKey(userId), res.json
generate_key_createApiKey(h) ==
    /\ h.route = "/api/generate-key" /\ h.pc = "createApiKey"
    /\ HasRouteId /\ HasKey
    /\ createApiKeyCall(h.user)
    /\ httpResp' = IF resp'.status = "ok"
                   THEN HttpResponse("/api/generate-key", h.user, 200,
                                     NoTransport, {resp'.target})
                   ELSE HttpResponse("/api/generate-key", AbsentId, 500,
                           NoTransport, ErrorBody("Failed to generate API key"))
    /\ handlers' = handlers \ {h}
    /\ UNCHANGED <<userTransports, transports>>

\* the request bodies of POST /api/add-email: an address, a text without
\* '@', and no email at all
NoBodyEmail == ""
EmailInputs == Emails \cup {"invalid-email", NoBodyEmail}
\* email.includes('@')
includesAt(email) == email \in Emails

\* addEmailToUser: UPDATE users SET email = $1 WHERE id = $2; the rows
\* after it (the same rows when the UNIQUE constraint rejects it)
addEmailToUser(userId, email) ==
    IF \E u \in users : u.id /= userId /\ u.email = email
    THEN users
    ELSE {IF u.id = userId THEN [u EXCEPT !.email = email] ELSE u : u \in users}

\* the UPDATE was rejected: addEmailToUser catches and returns false
addEmailFails(userId, email) ==
    \E u \in users : u.id /= userId /\ u.email = email

\* POST /api/add-email, lines 24-48
add_email(userId, email) ==
    /\ IF userId = AbsentId
       THEN /\ httpResp' = HttpResponse("/api/add-email", userId, 400,
                               NoTransport, ErrorBody("User ID is required"))
            /\ UNCHANGED users
       ELSE IF email = NoBodyEmail \/ ~includesAt(email)
       THEN /\ httpResp' = HttpResponse("/api/add-email", userId, 400,
                               NoTransport, ErrorBody("Valid email required"))
            /\ UNCHANGED users
       ELSE /\ users' = addEmailToUser(userId, email)
            /\ httpResp' = IF addEmailFails(userId, email)
                           THEN HttpResponse("/api/add-email", userId, 400,
                                   NoTransport, ErrorBody("Email already in use"))
                           ELSE HttpResponse("/api/add-email", userId, 200,
                                   NoTransport, {<<email>>})
    /\ UNCHANGED <<schema, api_keys, plants, watering_history, growth_logs,
                   plant_images, inflight, resp, nextId, clock, issued, nextKey,
                   req, sseVars>>

\* getUserApiKeys: SELECT id, key_prefix, created_at, last_used_at
\*                 FROM api_keys WHERE user_id = $1 AND is_active = true
getUserApiKeys(userId) ==
    {k \in api_keys : k.user_id = userId /\ k.is_active}

\* GET /api/me, lines 50-56: db.getUserById(req.userId)
me(userId) ==
    /\ IF userId = AbsentId
       THEN /\ httpResp' = HttpResponse("/api/me", userId, 400, NoTransport,
                               ErrorBody("User ID is required"))
            /\ UNCHANGED handlers
       ELSE /\ Cardinality(handlers) < MaxHandlers
            /\ handlers' = handlers \cup
                  {Handler("/api/me", userId, "getUserApiKeys", NoTransport)}
            /\ UNCHANGED httpResp
    /\ UNCHANGED <<storeVars, userTransports, transports>>

\* GET /api/me, lines 57-74: db.getUserApiKeys(req.userId), res.json
me_getUserApiKeys(h) ==
    /\ h.route = "/api/me" /\ h.pc = "getUserApiKeys"
    /\ handlers' = handlers \ {h}
    /\ httpResp' = IF "last_used_at" \in ApiKeysColumns
                   THEN HttpResponse("/api/me", h.user, 200, NoTransport,
                            {<<u.email>> : u \in {x \in users : x.id = h.user}}
                              \cup {k.key_prefix : k \in getUserApiKeys(h.user)})
                   ELSE HttpResponse("/api/me", h.user, 500, NoTransport,
                            ErrorBody("Failed to fetch user info"))
    /\ UNCHANGED <<storeVars, userTransports, transports>>

\* ------------------------------------- Tool calls (handlers.ts, server.ts)

\* The tool handler of the HTTP server (setupToolHandlers, "http") and the
\* one of the stdio server (server.ts, "stdio") are the same switch but for
\* get_plant, delete_plant and what the schedule entries carry; a run is a
\* run of one of the two, kept in tool.server.
Servers == {"http", "stdio"}

NoArg == -1                        \* args.plantId / args.daysAhead undefined

\* the CallToolResult: isError, and in content the ids or entries listed
ToolResult(name, userId, arg, isError, content) ==
    [server |-> tool.server, name |-> name, user |-> userId, arg |-> arg,
     isError |-> isError, content |-> content]

NoToolResult(server) ==
    [server |-> server, name |-> "none", user |-> 0, arg |-> NoArg,
     isError |-> FALSE, content |-> {}]

allButTool == <<storeVars, serverVars>>

idsOf(rows) == {r.id : r \in rows}

\* a required argument is missing: the early return with isError
MissingArgument(name, userId) ==
    /\ tool' = ToolResult(name, userId, NoArg, TRUE, {})
    /\ UNCHANGED allButTool

\* the catch around the switch: an awaited call rejected
CallTool_catch(name, userId, arg) ==
    /\ name \in {"add_plant", "list_plants", "get_plant", "delete_plant",
                 "get_watering_history", "get_watering_schedule",
                 "get_growth_logs", "get_plant_images"}
    /\ tool' = ToolResult(name, userId, arg, TRUE, {})
    /\ UNCHANGED allButTool

\* default: `Unknown tool: ${name}`
CallTool_default(name, userId) ==
    /\ tool' = ToolResult(name, userId, NoArg, TRUE, {})
    /\ UNCHANGED allButTool

\* inputSchema.required of add_plant
add_plant_required == {"name", "species", "location", "acquiredDate",
                       "wateringFrequency", "notes"}
\* the arguments the case tests before it calls the store
add_plant_checked(server) ==
    IF server = "http"
    THEN {"name", "species", "location", "acquiredDate", "wateringFrequency"}
    ELSE {"name", "species"}
\* `!args?.a` is false
truthy(args, a) ==
    /\ a \in args.given
    /\ a = "wateringFrequency" => args.wateringFrequency /= Number(0, 0)

\* case "add_plant"
CallTool_add_plant(userId, args) ==
    IF \E a \in add_plant_checked(tool.server) : ~truthy(args, a)
    THEN MissingArgument("add_plant", userId)
    ELSE /\ addPlant(userId, args)
         /\ tool' = ToolResult("add_plant", userId, NoArg, resp'.status = "error",
                               idsOf(resp'.rows))

\* case "list_plants"
CallTool_list_plants(userId) ==
    /\ tool' = ToolResult("list_plants", userId, NoArg, FALSE,
                          idsOf(listPlants(userId, NoFilters)))
    /\ UNCHANGED allButTool

\* case "get_plant": handlers.ts flags `!plant`, server.ts does not
CallTool_get_plant(userId, plantId) ==
    IF plantId = NoArg
    THEN MissingArgument("get_plant", userId)
    ELSE /\ tool' = ToolResult("get_plant", userId, plantId,
                               getPlant(userId, plantId) = {} /\ tool.server = "http",
                               idsOf(getPlant(userId, plantId)))
         /\ UNCHANGED allButTool

\* what the case makes of the value (or rejection) its store call ended
\* with: `if (!plant)`, `if (!history)`, `if (!log)`, `if (!image)`, catch
Returned(name, r) ==
    ToolResult(name, r.user, r.target, r.status \in {"not_found", "error"},
               idsOf(r.rows))

\* the store call of this step ended (it is not suspended at an await)
Ended == inflight' \subseteq inflight

\* case "update_plant"
CallTool_update_plant(userId, plantId, upd) ==
    IF plantId = NoArg
    THEN MissingArgument("update_plant", userId)
    ELSE /\ updatePlant(userId, plantId, upd)
         /\ tool' = IF Ended THEN Returned("update_plant", resp') ELSE tool

\* case "delete_plant": handlers.ts flags `!deleted`, server.ts ignores it
CallTool_delete_plant(userId, plantId) ==
    IF plantId = NoArg
    THEN MissingArgument("delete_plant", userId)
    ELSE /\ deletePlant(userId, plantId)
         /\ tool' = ToolResult("delete_plant", userId, plantId,
                               resp'.status = "not_found" /\ tool.server = "http",
                               idsOf(resp'.rows))

\* case "water_plant"
CallTool_water_plant(userId, plantId, date) ==
    IF plantId = NoArg
    THEN MissingArgument("water_plant", userId)
    ELSE /\ waterPlant(userId, plantId, date)
         /\ tool' = IF Ended THEN Returned("water_plant", resp') ELSE tool

\* case "add_growth_log"
CallTool_add_growth_log(userId, plantId, date) ==
    IF plantId = NoArg
    THEN MissingArgument("add_growth_log", userId)
    ELSE /\ addGrowthLog(userId, plantId, date)
         /\ tool' = IF Ended THEN Returned("add_growth_log", resp') ELSE tool

\* case "add_plant_image"
CallTool_add_plant_image(userId, plantId, date) ==
    IF plantId = NoArg
    THEN MissingArgument("add_plant_image", userId)
    ELSE /\ addPlantImage(userId, plantId, date)
         /\ tool' = IF Ended THEN Returned("add_plant_image", resp') ELSE tool

\* the tool whose case calls the store method
ToolOf(op) ==
    CASE op = "updatePlant" -> "update_plant"
      [] op = "waterPlant" -> "water_plant"
      [] op = "addGrowthLog" -> "add_growth_log"
      [] op = "addPlantImage" -> "add_plant_image"

\* the case goes on after the await of its store call
CallTool_resume(c) ==
    /\ \/ updatePlant_update(c)
       \/ updatePlant_return(c)
       \/ waterPlant_insert(c)
       \/ waterPlant_update(c)
       \/ addGrowthLog_insert(c)
       \/ addPlantImage_insert(c)
       \/ StorageFailure(c)
    /\ tool' = IF Ended THEN Returned(ToolOf(c.op), resp') ELSE tool

\* cases "get_watering_history", "get_growth_logs", "get_plant_images"
CallTool_get_rows(name, userId, plantId) ==
    IF plantId = NoArg
    THEN MissingArgument(name, userId)
    ELSE /\ tool' = ToolResult(name, userId, plantId, FALSE,
                      CASE name = "get_watering_history" ->
                               idsOf(getWateringHistory(userId, plantId))
                        [] name = "get_growth_logs" ->
                               idsOf(getGrowthLogs(userId, plantId))
                        [] name = "get_plant_images" ->
                               idsOf(getPlantImages(userId, plantId)))
         /\ UNCHANGED allButTool

\* ---- get_watering_schedule

DayLength == 2          \* clock readings in a day (1000 * 60 * 60 * 24 ms)
DefaultDaysAhead == 3
MaxToday == 7           \* days the clock of a schedule run can stand at
MaxFrequency == 3       \* watering_frequency of the plants of a schedule run
MaxDaysAhead == 3       \* largest daysAhead a caller passes

\* (args?.daysAhead as number) || 3
daysAheadOf(arg) == IF arg = NoArg \/ arg = 0 THEN DefaultDaysAhead ELSE arg

\* new Date(plant.lastWatered).getTime(): the date's midnight
getTime(date) == date * DayLength

\* Math.floor((today.getTime() - lastWatered.getTime()) / (1000*60*60*24))
daysSinceWatered(today, lastWatered) ==
    (today - getTime(lastWatered)) \div DayLength

daysUntilNextWatering(plant, today) ==
    plant.watering_frequency - daysSinceWatered(today, plant.last_watered)

\* the entry of a plant in the answer: handlers.ts adds daysOverdue and
\* status to the plant, server.ts lists the plant as it is
ScheduleEntry(plant, status, daysOverdue) ==
    [id |-> plant.id,
     status |-> IF tool.server = "http" THEN status ELSE "",
     daysOverdue |-> IF tool.server = "http" THEN daysOverdue ELSE {}]

\* needsWatering: the map and filter over listPlants(userId)
needsWatering(userId, daysAhead, today) ==
    {ScheduleEntry(p, "Never watered", {}) :
        p \in {q \in listPlants(userId, NoFilters) : q.last_watered = NoDate}}
    \cup
    {ScheduleEntry(p,
                   IF daysUntilNextWatering(p, today) < 0
                   THEN "Overdue" ELSE "Due soon",
                   {-daysUntilNextWatering(p, today)}) :
        p \in {q \in listPlants(userId, NoFilters) :
                 /\ q.last_watered /= NoDate
                 /\ daysUntilNextWatering(q, today) <= daysAhead}}

\* case "get_watering_schedule"
CallTool_get_watering_schedule(userId, arg) ==
    /\ tool' = ToolResult("get_watering_schedule", userId, arg, FALSE,
                          needsWatering(userId, daysAheadOf(arg), clock))
    /\ UNCHANGED allButTool

InitServer ==
    /\ userTransports = [u \in UserIds |-> NoTransport]
    /\ transports = << >>
    /\ handlers = {}
    /\ httpResp = NoHttpResponse
    /\ tool = NoToolResult("http")

\* ---------------------------------------------------------- specifications

TypeOK == schema \in {"created", "existing"}

\* Record Store runs: the users exist, the callers are authenticated
InitStore ==
    /\ schema = "created"
    /\ users = {[id |-> u, email |-> "user" \o ToString(u)] : u \in UserIds}
    /\ api_keys = {}
    /\ plants = {}
    /\ watering_history = {}
    /\ growth_logs = {}
    /\ plant_images = {}
    /\ inflight = {}
    /\ resp = NoResponse
    /\ nextId = MaxUsers
    /\ clock = 1
    /\ issued = {}
    /\ nextKey = 0
    /\ req = NoRequest
    /\ InitServer

\* the ids a caller can name: those handed out so far, and one that never was
KnownIds == ((MaxUsers + 1)..nextId) \cup {AbsentId}

\* the partial updates of these runs: no field, or a new name
StoreUpdates == {{}, {<<"name", "Basil">>}}

\* the plant these runs add: every property given, watered daily
AloePlant == Plant(add_plant_required, "Aloe", "Aloe vera", "Kitchen", Number(1, 0))

NextStore ==
    \/ /\ \E u \in UserIds : addPlant(u, AloePlant)
       /\ UNCHANGED tool
    \/ /\ \E u \in UserIds, id \in KnownIds : GetPlantCall(u, id)
       /\ UNCHANGED tool
    \/ /\ \E u \in UserIds, id \in KnownIds, upd \in StoreUpdates : updatePlant(u, id, upd)
       /\ UNCHANGED tool
    \/ /\ \E c \in inflight : updatePlant_update(c)
       /\ UNCHANGED tool
    \/ /\ \E c \in inflight : updatePlant_return(c)
       /\ UNCHANGED tool
    \/ /\ \E u \in UserIds, id \in KnownIds : deletePlant(u, id)
       /\ UNCHANGED tool
    \/ /\ \E u \in UserIds, id \in KnownIds, d \in Dates : waterPlant(u, id, d)
       /\ UNCHANGED tool
    \/ /\ \E c \in inflight : waterPlant_insert(c)
       /\ UNCHANGED tool
    \/ /\ \E c \in inflight : waterPlant_update(c)
       /\ UNCHANGED tool
    \/ /\ \E u \in UserIds, id \in KnownIds, d \in Dates : addGrowthLog(u, id, d)
       /\ UNCHANGED tool
    \/ /\ \E c \in inflight : addGrowthLog_insert(c)
       /\ UNCHANGED tool
    \/ /\ \E u \in UserIds, id \in KnownIds, d \in Dates : addPlantImage(u, id, d)
       /\ UNCHANGED tool
    \/ /\ \E c \in inflight : addPlantImage_insert(c)
       /\ UNCHANGED tool
    \/ /\ \E c \in inflight : StorageFailure(c)
       /\ UNCHANGED tool

SpecStore == InitStore /\ [][NextStore]_vars

\* Credential runs: an empty database, created or found existing
InitAuth ==
    /\ schema \in {"created", "existing"}
    /\ users = {}
    /\ api_keys = {}
    /\ plants = {}
    /\ watering_history = {}
    /\ growth_logs = {}
    /\ plant_images = {}
    /\ inflight = {}
    /\ resp = NoResponse
    /\ nextId = MaxUsers
    /\ clock = 1
    /\ issued = {}
    /\ nextKey = 0
    /\ req = NoRequest
    /\ InitServer

RevokeArgs == issued \cup {k.key_hash : k \in api_keys} \cup {<<"planty", "_live_", "9", "9">>}

NextAuth ==
    \/ /\ \E e \in Emails \cup {NoEmail} : createUser(e)
       /\ UNCHANGED tool
    \/ /\ \E u \in {x.id : x \in users} \cup {AbsentId} : createApiKey(u)
       /\ UNCHANGED tool
    \/ /\ \E a \in RevokeArgs : revokeApiKey(a)
       /\ UNCHANGED tool
    \/ /\ \E p \in Paths, h \in Headers : Middleware(p, h)
       /\ UNCHANGED tool
    \/ /\ getUserByApiKey_select
       /\ UNCHANGED tool
    \/ /\ getUserByApiKey_update
       /\ UNCHANGED tool
    \/ /\ getUserByApiKey_throws
       /\ UNCHANGED tool

SpecAuth == InitAuth /\ [][NextAuth]_vars

\* Route runs: an empty database, created or found existing; the callers of
\* add-email and me are the users there are
InitRoutes == InitAuth

NextRoutes ==
    \/ /\ generate_key
       /\ UNCHANGED tool
    \/ /\ \E h \in handlers : generate_key_createApiKey(h)
       /\ UNCHANGED tool
    \/ /\ \E e \in Emails : HasRouteId /\ createUserCall(e) /\ UNCHANGED serverVars
       /\ UNCHANGED tool
    \/ /\ \E u \in {x.id : x \in users} \cup {AbsentId}, e \in EmailInputs :
             add_email(u, e)
       /\ UNCHANGED tool
    \/ /\ \E u \in {x.id : x \in users} \cup {AbsentId} : me(u)
       /\ UNCHANGED tool
    \/ /\ \E h \in handlers : me_getUserApiKeys(h)
       /\ UNCHANGED tool

SpecRoutes == InitRoutes /\ [][NextRoutes]_vars

\* Tool runs: the Record Store runs, driven through the tool handler of
\* either server
InitTools ==
    /\ schema = "created"
    /\ users = {[id |-> u, email |-> "user" \o ToString(u)] : u \in UserIds}
    /\ api_keys = {}
    /\ plants = {}
    /\ watering_history = {}
    /\ growth_logs = {}
    /\ plant_images = {}
    /\ inflight = {}
    /\ resp = NoResponse
    /\ nextId = MaxUsers
    /\ clock = 1
    /\ issued = {}
    /\ nextKey = 0
    /\ req = NoRequest
    /\ userTransports = [u \in UserIds |-> NoTransport]
    /\ transports = << >>
    /\ handlers = {}
    /\ httpResp = NoHttpResponse
    /\ \E server \in Servers : tool = NoToolResult(server)

ToolIds == KnownIds \cup {NoArg}

\* the one caller of the tools that only read or only add to a plant
Reader == CHOOSE u \in UserIds : TRUE

NextTools ==
    \/ \E u \in UserIds : CallTool_add_plant(u, AloePlant)
    \/ CallTool_add_plant(Reader, [AloePlant EXCEPT !.given = {"name"}])
    \/ CallTool_list_plants(Reader)
    \/ \E id \in ToolIds : CallTool_get_plant(Reader, id)
    \/ \E u \in UserIds, id \in ToolIds, upd \in StoreUpdates :
          CallTool_update_plant(u, id, upd)
    \/ \E u \in UserIds, id \in ToolIds : CallTool_delete_plant(u, id)
    \/ \E u \in UserIds, id \in ToolIds : CallTool_water_plant(u, id, 1)
    \/ \E id \in ToolIds : CallTool_add_growth_log(Reader, id, 1)
    \/ \E id \in ToolIds : CallTool_add_plant_image(Reader, id, 1)
    \/ \E c \in inflight : CallTool_resume(c)
    \/ \E id \in ToolIds : CallTool_get_rows("get_watering_history", Reader, id)
    \/ CallTool_default("prune_plant", Reader)
    \/ CallTool_catch("list_plants", Reader, NoArg)

SpecTools == InitTools /\ [][NextTools]_vars

\* Argument runs: add_plant is called with one property left out or with
\* all of them, update_plant with a new watering frequency; the numbers are
\* negative, zero, a fraction and positive
Frequencies == {Number(-1, 0), Number(0, 0), Number(0, 1), Number(1, 0)}
ArgumentSets ==
    {add_plant_required} \cup {add_plant_required \ {a} : a \in add_plant_required}

NextArgs ==
    \/ \E given \in ArgumentSets, n \in Frequencies :
          CallTool_add_plant(Reader, [AloePlant EXCEPT !.given = given,
                                                       !.wateringFrequency = n])
    \/ \E id \in ToolIds, n \in Frequencies :
          CallTool_update_plant(Reader, id, {<<"wateringFrequency", n>>})
    \/ \E c \in inflight : CallTool_resume(c)

SpecArgs == InitTools /\ [][NextArgs]_vars

\* Schedule runs: each user has one plant, watered on some date or never;
\* the clock stands somewhere in the days after
SchedulePlant(id, userId, frequency, lastWatered) ==
    [id |-> id, user_id |-> userId, name |-> "Aloe", species |-> "Aloe vera",
     location |-> "Kitchen",
     last_watered |-> lastWatered, updated_at |-> 1,
     watering_frequency |-> frequency]

InitSchedule ==
    /\ schema = "created"
    /\ users = {[id |-> u, email |-> "user" \o ToString(u)] : u \in UserIds}
    /\ api_keys = {}
    /\ \E f \in [UserIds -> 1..MaxFrequency], w \in [UserIds -> Dates \cup {NoDate}] :
          plants = {SchedulePlant(MaxUsers + u, u, f[u], w[u]) : u \in UserIds}
    /\ watering_history = {}
    /\ growth_logs = {}
    /\ plant_images = {}
    /\ inflight = {}
    /\ resp = NoResponse
    /\ nextId = MaxUsers + MaxUsers
    /\ clock \in (getTime(MaxDate)..(getTime(MaxToday) + DayLength - 1))
    /\ issued = {}
    /\ nextKey = 0
    /\ req = NoRequest
    /\ userTransports = [u \in UserIds |-> NoTransport]
    /\ transports = << >>
    /\ handlers = {}
    /\ httpResp = NoHttpResponse
    /\ \E server \in Servers : tool = NoToolResult(server)

DaysAheadArgs == (0..MaxDaysAhead) \cup {NoArg}

NextSchedule ==
    \/ \E u \in UserIds, arg \in DaysAheadArgs :
          CallTool_get_watering_schedule(u, arg)
    \/ \E u \in UserIds : CallTool_catch("get_watering_schedule", u, NoArg)

SpecSchedule == InitSchedule /\ [][NextSchedule]_vars

\* Plant runs: each user already has two plants, a basil in the kitchen
\* and an aloe in the office, stored before the ids of the run are handed
\* out; they are listed, the first user's basil is renamed, moved and
\* watered, and the clock goes on
HerbOf(userId) == MaxUsers + MaxIds + 2 * userId - 1
AloeOf(userId) == MaxUsers + MaxIds + 2 * userId

InitPlants ==
    /\ schema = "created"
    /\ users = {[id |-> u, email |-> "user" \o ToString(u)] : u \in UserIds}
    /\ api_keys = {}
    /\ plants = {[SchedulePlant(HerbOf(u), u, 1, NoDate) EXCEPT
                     !.name = "Basil", !.species = "Ocimum"] : u \in UserIds}
                \cup {[SchedulePlant(AloeOf(u), u, 1, NoDate) EXCEPT
                          !.location = "Office"] : u \in UserIds}
    /\ watering_history = {}
    /\ growth_logs = {}
    /\ plant_images = {}
    /\ inflight = {}
    /\ resp = NoResponse
    /\ nextId = MaxUsers
    /\ clock = 1
    /\ issued = {}
    /\ nextKey = 0
    /\ req = NoRequest
    /\ InitServer

ListFilters ==
    {[location |-> l, species |-> sp] :
        l \in {"", "Kitchen"}, sp \in {"", "Aloe vera"}}

NextPlants ==
    \/ /\ \E f \in ListFilters : ListPlantsCall(Reader, f)
       /\ UNCHANGED tool
    \/ /\ \E u \in UserIds,
              upd \in {{}, {<<"name", "Aloe">>},
                       {<<"species", "Aloe vera">>, <<"location", "Office">>}} :
             updatePlant(u, HerbOf(Reader), upd)
       /\ UNCHANGED tool
    \/ /\ \E c \in inflight : updatePlant_update(c)
       /\ UNCHANGED tool
    \/ /\ \E c \in inflight : updatePlant_return(c)
       /\ UNCHANGED tool
    \/ /\ \E d \in {1, MaxDate} : waterPlant(Reader, HerbOf(Reader), d)
       /\ UNCHANGED tool
    \/ /\ \E c \in inflight : waterPlant_insert(c)
       /\ UNCHANGED tool
    \/ /\ \E c \in inflight : waterPlant_update(c)
       /\ UNCHANGED tool
    \/ /\ Tick
       /\ UNCHANGED tool

SpecPlants == InitPlants /\ [][NextPlants]_vars

\* Streaming runs: the identities are authenticated, no session is open
InitSse == InitStore

NextSse ==
    \/ /\ \E u \in UserIds \cup {AbsentId} : sse_get(u)
       /\ UNCHANGED tool
    \/ /\ \E h \in handlers : sse_closed(h)
       /\ UNCHANGED tool
    \/ /\ \E h \in handlers : sse_connected(h)
       /\ UNCHANGED tool
    \/ /\ \E h \in handlers : sse_catch(h)
       /\ UNCHANGED tool
    \/ /\ \E t \in 1..Len(transports) : Disconnect(t)
       /\ UNCHANGED tool
    \/ /\ \E t \in 1..Len(transports) : onclose(t)
       /\ UNCHANGED tool
    \/ /\ \E u \in UserIds \cup {AbsentId} : message_post(u)
       /\ UNCHANGED tool

SpecSse == InitSse /\ [][NextSse]_vars

\* ------------------------------------------------------------------ claims

\* the plant a response is about belongs to somebody else
ForeignTarget(r) == \E p \in plants : p.id = r.target /\ p.user_id /= r.user

\* C1: a plant is never found by a user other than its owner, and what
\* that user gets is what an id that was never handed out gets.
C1_OtherUsersPlantNotFound ==
    /\ \A p \in plants : \A b \in UserIds \ {p.user_id} :
          /\ getPlant(b, p.id) = {}
          /\ getPlant(b, p.id) = getPlant(b, AbsentId)
    /\ (resp.op = "getPlant" /\ (ForeignTarget(resp) \/ resp.target = AbsentId))
          => (resp.status = "not_found" /\ resp.rows = {})

C1_Witness ==
    /\ resp.op = "getPlant"
    /\ ForeignTarget(resp)
    /\ resp.status = "not_found"

Mutations ==
    {"updatePlant", "deletePlant", "waterPlant", "addGrowthLog", "addPlantImage"}

\* C2: a mutation by a user against a plant of another user returns
\* not-found and changes no row of any table.
C2_ForeignMutationChangesNothing ==
    [][(resp' /= resp /\ resp'.op \in Mutations /\ ForeignTarget(resp'))
          => (resp'.status = "not_found" /\ UNCHANGED tables)]_vars

C2_Witness ==
    /\ resp.op \in Mutations
    /\ ForeignTarget(resp)
    /\ resp.status = "not_found"
    /\ \E w \in watering_history : w.plant_id = resp.target

\* C3: waterPlant is atomic: a call that failed has left no watering
\* event behind (neither the event nor the plant update is persisted).
C3_WaterPlantAtomic ==
    (resp.op = "waterPlant" /\ resp.status = "error")
        => ~\E w \in watering_history : w.id = resp.id

\* the credentials a presented key matches
Matching(key) == {k \in api_keys : k.key_hash = hashApiKey(key)}

\* C4: a request bearing an issued token whose credential is not revoked
\* is resolved to the credential's user: the identity is attached, next
\* is called and no error status is sent.
C4_IssuedTokenResolves ==
    (/\ req.pc = "done"
     /\ req.cred = "active"
     /\ \A k \in Matching(req.key) : k.is_active
     /\ req.threwAt /= "select")
        => /\ req.next
           /\ req.status = 0
           /\ \E k \in Matching(req.key) : req.userId = k.user_id

\* C5: revoke, given the token or the hash of a credential, leaves that
\* credential inactive.
C5_RevokeByTokenOrHash ==
    resp.op = "revokeApiKey"
        => \A k \in api_keys :
              (hashApiKey(resp.target) = k.key_hash \/ resp.target = k.key_hash)
                  => ~k.is_active

PublicPaths ==
    {"/api/generate-key", "/health", "/", "/static/style.css", "/index.html",
     "/logo.png"}
ProtectedPaths == Paths \ PublicPaths

\* the request came without a credential that was active in the store
BadCredential(r) == r.cred \in {"missing", "unknown", "inactive"}

\* C6 as stated: on a protected path a request without a valid credential
\* is answered 401, next is not called, no identity is attached.
C6_Rejected401 ==
    (req.pc = "done" /\ req.path \in ProtectedPaths /\ BadCredential(req))
        => (req.status = 401 /\ ~req.next /\ req.userId = 0)

\* C6 as amended: the answer is 401, or 500 when the lookup of the
\* presented key itself threw; next is not called, no identity is attached.
C6_RejectedNeverPasses ==
    (req.pc = "done" /\ req.path \in ProtectedPaths /\ BadCredential(req))
        => /\ req.status \in {401, 500}
           /\ req.status = 500 <=> req.threwAt = "select"
           /\ ~req.next
           /\ req.userId = 0

C6_Witness ==
    /\ req.pc = "done"
    /\ req.path = "/sse"
    /\ req.cred = "inactive"
    /\ req.status = 401
    /\ req.lookups = 1

\* C7: a request to a public path with no Authorization header reaches
\* the next handler and gets no 401.
C7_PublicPathsPass ==
    (req.pc = "done" /\ req.path \in PublicPaths /\ req.header = NoHeader)
        => (req.next /\ req.status = 0)

\* C8: when the lookup of a well-formed bearer token throws, the answer
\* is 500, next is not called and no identity is attached.
C8_LookupFailureIs500 ==
    (req.pc = "done" /\ req.threwAt /= "none")
        => (req.status = 500 /\ ~req.next /\ req.userId = 0)

C8_Witness ==
    /\ req.pc = "done"
    /\ req.threwAt = "select"
    /\ WellFormed(req.key)
    /\ req.status = 500

\* C9: a presented token that does not begin with planty_live_ is
\* rejected with 401 and getUserByApiKey is not called for it.
C9_PrefixCheckedBeforeLookup ==
    (req.pc /= "none" /\ startsWith(req.header, <<"Bearer ">>)
        /\ ~startsWith(Tail(req.header), TokenPrefix))
        => (req.lookups = 0 /\ req.pc = "done" /\ req.status = 401)

\* C10: once the presented token has matched an active credential, the
\* request is let through with that user, whatever becomes of the write
\* of the last-used time.
C10_LastUsedWriteNotFatal ==
    (req.pc = "done" /\ req.rows /= {})
        => /\ req.next
           /\ req.status = 0
           /\ \E u \in req.rows : req.userId = u.id

\* C11: every open stream is the one the registry holds for its identity,
\* so an identity has at most one active streaming session, whatever the
\* interleaving of GET /sse requests and closes.
C11_OneActiveSessionPerIdentity ==
    \A t \in 1..Len(transports) :
        Open(t) => userTransports[transports[t].user] = t

\* C12: a POST /message of an identity is handed to the session the
\* registry holds for that identity, and to no session (400) when it holds
\* none; it is never handed to a session of another identity.
C12_MessageToOwnSession ==
    [][(httpResp'.route = "/message" /\ httpResp'.user /= AbsentId)
          => /\ httpResp'.to /= NoTransport
                  => transports'[httpResp'.to].user = httpResp'.user
             /\ (httpResp' /= httpResp)
                  => IF userTransports[httpResp'.user] = NoTransport
                     THEN httpResp'.status = 400 /\ httpResp'.to = NoTransport
                     ELSE httpResp'.to = userTransports[httpResp'.user]]_vars

\* a message was delivered while another identity had a session too
C12_Witness ==
    /\ httpResp.route = "/message"
    /\ httpResp.to /= NoTransport
    /\ \E u \in UserIds \ {httpResp.user} : userTransports[u] /= NoTransport

\* no retrieval, by any user, returns the plant or a row that hangs off it
NothingRetrievable(plantId) ==
    \A u \in UserIds :
        /\ getPlant(u, plantId) = {}
        /\ getWateringHistory(u, plantId) = {}
        /\ getGrowthLogs(u, plantId) = {}
        /\ getPlantImages(u, plantId) = {}
        /\ \A i \in Ids : \A r \in getPlantImage(u, i) : r.plant_id /= plantId

\* C13: once deletePlant has succeeded, the plant and its watering events,
\* growth logs and images are retrievable by nobody, and stay so: a plant
\* id that has been handed out and has nothing retrievable never gets
\* anything retrievable again.
C13_DeletedPlantLeavesNothing ==
    [][/\ (resp' /= resp /\ resp'.op = "deletePlant" /\ resp'.status = "ok")
            => NothingRetrievable(resp.target)'
       /\ \A id \in (MaxUsers + 1)..nextId :
            NothingRetrievable(id) => NothingRetrievable(id)']_vars

\* a plant was deleted after a watering event of it had been stored
C13_Witness ==
    /\ resp.op = "deletePlant" /\ resp.status = "ok"
    /\ NothingRetrievable(resp.target)
    /\ \E c \in inflight :
         c.op = "waterPlant" /\ c.pc = "update" /\ c.plant = resp.target

\* C14: every POST /api/generate-key is answered 200 with a new user that
\* has no email and exactly one active credential, and the token in the
\* answer resolves to that user.
C14_GenerateKeySucceeds ==
    httpResp.route = "/api/generate-key"
        => /\ httpResp.status = 200
           /\ \E u \in users : u.id = httpResp.user /\ u.email = NoEmail
           /\ Cardinality(getUserApiKeys(httpResp.user)) = 1
           /\ \A t \in httpResp.body :
                {u.id : u \in SelectUser(t)} = {httpResp.user}

\* C15: createUser(email) with an email some user already has resolves to
\* that user's id, and one user has that email afterwards.
C15_CreateUserIdempotentByEmail ==
    (resp.op = "createUser" /\ resp.target /= NoEmail)
        => /\ resp.status = "ok"
           /\ \E u \in users : u.email = resp.target /\ u.id = resp.id
           /\ Cardinality({u \in users : u.email = resp.target}) = 1

\* C16: an email, once set, is never changed by a later step; and an
\* add-email answered 'Email already in use' is a 400 that leaves the
\* users as they were.
C16_EmailAttachedOnce ==
    [][/\ \A u \in users : u.email /= NoEmail => u \in users'
       /\ (/\ httpResp' /= httpResp
           /\ httpResp'.route = "/api/add-email"
           /\ httpResp'.body = ErrorBody("Email already in use"))
            => (httpResp'.status = 400 /\ users' = users)]_vars

\* the hashes in the credential store
StoredHashes == {k.key_hash : k \in api_keys}

\* C17: no credential row holds a plaintext token in key_hash or
\* key_prefix; the answer of the issuing call holds a token never returned
\* before, and no other answer holds a token or a stored hash.
C17_PlaintextNeverStored ==
    [][/\ \A k \in api_keys' : k.key_hash \notin issued' /\ k.key_prefix \notin issued'
       /\ (httpResp' /= httpResp)
            => /\ httpResp'.body \cap StoredHashes' = {}
               /\ httpResp'.body \cap issued = {}
               /\ \/ httpResp'.body \cap issued' = {}
                  \/ /\ httpResp'.route = "/api/generate-key"
                     /\ httpResp'.status = 200
                     /\ httpResp'.body = issued' \ issued]_vars

\* GET /api/me has listed the prefix of a credential whose token was issued
C17_Witness ==
    /\ httpResp.route = "/api/me" /\ httpResp.status = 200
    /\ issued /= {}
    /\ \E k \in getUserApiKeys(httpResp.user) : k.key_prefix \in httpResp.body

\* the lookahead the caller asked for: the value supplied, 3 when none
Lookahead(arg) == IF arg = NoArg THEN DefaultDaysAhead ELSE arg

\* the schedule a call has just answered with
ScheduleAnswered ==
    tool.name = "get_watering_schedule" /\ ~tool.isError

\* C18: the schedule lists exactly the caller's plants that were never
\* watered or whose days until due are at most the lookahead asked for.
C18_ScheduleIsExactlyTheDuePlants ==
    ScheduleAnswered
        => {e.id : e \in tool.content}
             = {p.id : p \in {q \in plants :
                   /\ q.user_id = tool.user
                   /\ \/ q.last_watered = NoDate
                      \/ daysUntilNextWatering(q, clock) <= Lookahead(tool.arg)}}

\* C19: a listed plant that has been watered is reported overdue exactly
\* when its days until due are zero or less, and due soon otherwise.
C19_OverdueIffNotPositive ==
    (ScheduleAnswered /\ tool.server = "http")
        => \A e \in tool.content : \A p \in plants :
             (p.id = e.id /\ p.last_watered /= NoDate)
                => /\ e.status \in {"Overdue", "Due soon"}
                   /\ e.status = "Overdue" <=> daysUntilNextWatering(p, clock) <= 0

ToolNames ==
    {"add_plant", "list_plants", "get_plant", "update_plant", "delete_plant",
     "water_plant", "get_watering_history", "get_watering_schedule",
     "add_growth_log", "get_growth_logs", "add_plant_image", "get_plant_images"}

\* C20: a tool call on a plant that is absent or someone else's, a store
\* call that failed and an unknown tool name each give a result with
\* isError; a store call that succeeded gives a result without.
C20_ErrorsCarryErrorFlag ==
    [][(tool' /= tool) =>
         /\ tool'.name \notin ToolNames => tool'.isError
         /\ (tool'.name = "get_plant" /\ tool'.arg /= NoArg)
               => (getPlant(tool'.user, tool'.arg) = {} => tool'.isError)
         /\ (/\ tool'.name \in {"update_plant", "delete_plant", "water_plant",
                                "add_growth_log", "add_plant_image"}
             /\ tool'.arg /= NoArg)
               => tool'.isError = (resp'.status \in {"not_found", "error"})]_vars

\* C21: a call of add_plant that leaves out an argument its input schema
\* declares required ends error-flagged with the store untouched, and a
\* call that supplies every declared argument, the frequency a whole
\* number, is not turned away
C21_RequiredArgumentsEnforced ==
    [][\A given \in ArgumentSets, n \in Frequencies :
          LET args == [AloePlant EXCEPT !.given = given, !.wateringFrequency = n]
          IN CallTool_add_plant(Reader, args) =>
                /\ ~(add_plant_required \subseteq given) =>
                       tool'.isError /\ UNCHANGED <<tables, nextId, resp>>
                /\ (add_plant_required \subseteq given /\ isInteger(n)) =>
                       ~tool'.isError]_vars

\* C27: the watering frequency of every stored plant is a whole number of
\* days, at least one
C27_FrequencyPositive ==
    \A p \in plants : p.watering_frequency >= 1

\* the first name is the second or sorts before it
NameNotAfter(a, b) == a = b \/ (a = "Aloe" /\ b = "Basil")

\* C22: listPlants(owner, filters) returns exactly the owner's plants whose
\* location equals filters.location and whose species equals
\* filters.species, each condition applying when the filter is given, never
\* a plant of another identity, each once, in ascending order of name
C22_ListIsTheOwnersMatchesByName ==
    [][\A f \in ListFilters :
          (resp'.op = "listPlants" /\ ListPlantsCall(Reader, f)) =>
             LET listed == {e.row : e \in resp'.rows} IN
             /\ listed = {p \in plants :
                            /\ p.user_id = Reader
                            /\ f.location /= "" => p.location = f.location
                            /\ f.species /= "" => p.species = f.species}
             /\ Cardinality(resp'.rows) = Cardinality(listed)
             /\ {e.rank : e \in resp'.rows} = 1..Cardinality(listed)
             /\ \A a, b \in resp'.rows :
                   a.rank < b.rank => NameNotAfter(a.row.name, b.row.name)]_vars

\* a filtered listing left out a plant of the caller
C22_Witness ==
    /\ resp.op = "listPlants"
    /\ Cardinality(resp.rows) = 1
    /\ Cardinality(listPlants(resp.user, NoFilters)) = 2
    /\ \E p \in plants : p.user_id /= resp.user

\* C23: what getWateringHistory(owner, plantId) returns is exactly what the
\* successful waterPlant calls of that owner for that plant recorded: every
\* row is of that plant and that owner, no row is the event of a call that
\* failed, and the event of a call that succeeded is there while its plant is
C23_HistoryIsTheSuccessfulWaterings ==
    \A u \in UserIds, id \in {p.id : p \in plants} :
        LET history == getWateringHistory(u, id) IN
        /\ \A w \in history : w.plant_id = id /\ w.user_id = u
        /\ \A w \in history :
              ~(resp.op = "waterPlant" /\ resp.status = "error" /\ resp.id = w.id)
        /\ (/\ resp.op = "waterPlant" /\ resp.status = "ok"
            /\ resp.user = u /\ resp.target = id /\ getPlant(u, id) /= {})
              => resp.rows \subseteq history

\* C24: the UPDATE of updatePlant gives the columns of the supplied fields
\* the supplied values and updated_at the time of the call, and leaves every
\* other column of the row, every other row and every other table as it
\* was; a call that returns without that statement (no field supplied, or
\* no such plant of the caller) writes nothing and returns the current record
C24_UpdateChangesExactlyTheSupplied ==
    [][/\ \A c \in inflight :
             (/\ c.op = "updatePlant" /\ c.pc = "update"
              /\ c \notin inflight'
              /\ [c EXCEPT !.pc = "return", !.now = clock] \in inflight')
             => /\ UNCHANGED <<users, watering_history, growth_logs, plant_images>>
                /\ Cardinality(plants') = Cardinality(plants)
                /\ \A r \in plants :
                      IF r.id = c.plant /\ r.user_id = c.user
                      THEN \E n \in plants' :
                              /\ n.id = r.id /\ n.user_id = r.user_id
                              /\ n.updated_at = clock
                              /\ \A f \in {"name", "species", "location"} :
                                    n[f] = IF f \in keys(c.upd)
                                           THEN valueOf(c.upd, f) ELSE r[f]
                              /\ n.watering_frequency = r.watering_frequency
                              /\ n.last_watered = r.last_watered
                      ELSE r \in plants'
       /\ (resp' /= resp /\ resp'.op = "updatePlant" /\ inflight' = inflight)
             => /\ UNCHANGED tables
                /\ resp'.rows = getPlant(resp'.user, resp'.target)]_vars

\* a rename has been written, at a later time than the row was last written
C24_Witness ==
    \E c \in inflight :
        /\ c.op = "updatePlant" /\ c.pc = "return"
        /\ c.upd = {<<"name", "Aloe">>}
        /\ \E p \in plants :
              /\ p.id = c.plant /\ p.name = "Aloe" /\ p.species = "Ocimum"
              /\ p.updated_at > 1

\* the rows of the caller's plant that a step removed
RemovedBy(r) ==
    {p \in plants : p.id = r.target /\ p.user_id = r.user /\ p \notin plants'}

\* C25: deletePlant returns true exactly when the call removed a plant row
\* of the caller, and the delete_plant tool answers with the error flag
\* exactly when it returned false
C25_DeleteReportsWhetherRemoved ==
    [][(resp' /= resp /\ resp'.op = "deletePlant")
          => /\ (resp'.status = "ok") <=> (RemovedBy(resp') /= {})
             /\ (resp'.status = "not_found") <=> (RemovedBy(resp') = {})
             /\ tool'.name = "delete_plant" /\ tool'.arg = resp'.target
             /\ tool'.isError <=> (resp'.status = "not_found")]_vars

\* C26: a read of the watering history, the growth logs or the images of a
\* plant the caller does not own (absent, or another user's) ends with the
\* not-found signal, not with an ordinary result
C26_ForeignPlantReadsNotFound ==
    [][(/\ tool' /= tool
        /\ tool'.name \in {"get_watering_history", "get_growth_logs", "get_plant_images"}
        /\ tool'.arg /= NoArg
        /\ getPlant(tool'.user, tool'.arg) = {})
          => tool'.isError]_vars

\* C28: an identity's registry entry is taken out only when the session it
\* refers to is closed (a superseding connect replaces it), so a POST
\* /message finds no session only when the identity has no open stream
C28_EvictedOnlyByItsOwnClose ==
    [][/\ \A u \in UserIds :
             (userTransports[u] /= NoTransport /\ userTransports'[u] = NoTransport)
                => transports'[userTransports[u]].state /= "open"
       /\ (/\ httpResp' /= httpResp
           /\ httpResp'.route = "/message"
           /\ httpResp'.status = 400)
             => \A t \in 1..Len(transports) :
                    Open(t) => transports[t].user /= httpResp'.user]_vars

\* C29: when every call has completed, a plant's last_watered is null if
\* its watering history is empty and otherwise the latest watered date in it
C29_LastWateredIsTheMostRecent ==
    inflight = {} =>
        \A p \in plants :
            LET history == getWateringHistory(p.user_id, p.id) IN
            IF history = {}
            THEN p.last_watered = NoDate
            ELSE /\ \E w \in history : p.last_watered = w.watered_date
                 /\ \A w \in history : w.watered_date <= p.last_watered

\* C30: every stored watering event, growth log and image is of a plant
\* that exists and has the row's own owner, however the steps of
\* waterPlant, addGrowthLog and addPlantImage interleave with a deletePlant
C30_NoOrphanedChildRows ==
    \A r \in watering_history \cup growth_logs \cup plant_images :
        \E p \in plants : p.id = r.plant_id /\ p.user_id = r.user_id

\* an append passed its ownership check, the plant was deleted under it,
\* and its INSERT failed
C30_Witness ==
    /\ resp.op \in {"waterPlant", "addGrowthLog", "addPlantImage"}
    /\ resp.status = "error"
    /\ resp.target /= AbsentId
    /\ ~PlantExists(resp.target)
    /\ inflight = {}
====
